---- MODULE Spec2Model ----
(***************************************************************************)
(* Model of src/lifetime/normalize.rs: `fix` / `sort`, the in-place        *)
(* normalisation of a graph stored as a slice of nodes addressed by index. *)
(*                                                                         *)
(* A node is a record [id, parent, children].  `parent` models             *)
(* Option<usize>: the empty sequence is None and <<p>> is Some(p).         *)
(* `children` models the slice of child indices (1-based here, so the      *)
(* code's children[j] is children[j + 1]).  `id` stands for the rest of    *)
(* the node's payload: it is the index the node had when sort was called   *)
(* and is never read by the algorithm.                                     *)
(***************************************************************************)
EXTENDS Integers, Sequences, FiniteSets

\* Bounds of the explored inputs.
MaxN == 3
MaxEdges == 3
MaxPermN == 4
CountCap == 3

VARIABLES
    n,            \* nodes.len()
    nodes,        \* the slice: [0..n-1 -> node]
    gen,          \* the generator: [0..n-1 -> 0..n-1]
    pc,           \* "solve" | "check" | "remap" | "retrace" | "done"
    i, j, k,      \* loop indices of the phase that is running
    changed,      \* the solver's flag
    call,         \* how many times sort has been called on this slice
    input,        \* history: the slice as it was when sort was called
    gsol,         \* history: gen at the moment the solver halted
    passes,       \* history: solver passes started in this call (saturating)
    solverSwaps,  \* history: gen.swap calls of the solver (saturating)
    retraceSwaps  \* history: nodes.swap calls of the retrace loop, per scan index

vars == <<n, nodes, gen, pc, i, j, k, changed, call, input, gsol, passes,
          solverSwaps, retraceSwaps>>

Idx(m) == 0 .. (m - 1)

None == <<>>
Some(p) == <<p>>
IsSome(o) == Len(o) = 1
Unwrap(o) == o[1]

Min(a, b) == IF a < b THEN a ELSE b

-----------------------------------------------------------------------------
(* Relations on indices, used to describe inputs and the order sort aims at *)

\* (x, y): y is listed in x's child list.
ChildEdges(ns, m) ==
    UNION {{<<x, ns[x].children[t]>> : t \in 1 .. Len(ns[x].children)} :
           x \in Idx(m)}

\* (p, x): x's parent field holds p.
ParentEdges(ns, m) ==
    {<<Unwrap(ns[x].parent), x>> : x \in {y \in Idx(m) : IsSome(ns[y].parent)}}

\* (a, b): a is listed before b in some child list, a and b different nodes.
SiblingEdges(ns, m) ==
    UNION {{<<ns[x].children[p[1]], ns[x].children[p[2]]>> :
               p \in {q \in (1 .. Len(ns[x].children)) \X (1 .. Len(ns[x].children)) :
                         /\ q[1] < q[2]
                         /\ ns[x].children[q[1]] # ns[x].children[q[2]]}} :
           x \in Idx(m)}

\* The indices reachable from the set S along R, S included.
RECURSIVE ReachFrom(_, _)
ReachFrom(R, S) ==
    LET T == S \cup {e[2] : e \in {d \in R : d[1] \in S}}
    IN  IF T = S THEN S ELSE ReachFrom(R, T)

\* No edge of R lies on a cycle.
Acyclic(R) == \A e \in R : e[1] \notin ReachFrom(R, {e[2]})

\* Transitive closure of R over the indices below m.
Closure(R, m) ==
    UNION {{<<x, y>> : y \in ReachFrom(R, {d[2] : d \in {e \in R : e[1] = x}})} :
           x \in Idx(m)}

-----------------------------------------------------------------------------
(* The solver, lines 26-51 *)

Identity(m) == [x \in Idx(m) |-> x]

\* A swap that forgets the temporary.
SwapGenClobber(g, x, y) == [g EXCEPT ![x] = g[y]]

\* Vec::swap on the generator.
SwapGen(g, x, y) == [g EXCEPT ![x] = g[y], ![y] = g[x]]

\* The comparison the wrong way round, and a comparison for inequality.
OutOfOrderReversed(g, x, y) == g[x] < g[y]
OutOfOrderNe(g, x, y) == g[x] # g[y]

\* The condition of line 34 and of line 43.
OutOfOrder(g, x, y) == g[x] > g[y]

\* A solver that sets its flag and forgets to swap.
OrderedNoSwap(g, x, y) == g

\* Lines 34-37 and 43-46: swap when out of order.
Ordered(g, x, y) == IF OutOfOrder(g, x, y) THEN SwapGen(g, x, y) ELSE g

NumChildren(ns, x) == Len(ns[x].children)

\* First node index >= x whose child list is not empty, or m when none is left.
RECURSIVE NextNode(_, _, _)
NextNode(ns, m, x) ==
    IF x >= m THEN m
    ELSE IF NumChildren(ns, x) > 0 THEN x
    ELSE NextNode(ns, m, x + 1)

\* A solver without the inner loop of line 39.
AdvanceNoSiblings(ns, m, x, jj, kk) ==
    IF jj + 1 < NumChildren(ns, x)
    THEN [pc |-> "solve", i |-> x, j |-> jj + 1, k |-> jj + 1]
    ELSE LET y == NextNode(ns, m, x + 1) IN
         IF y < m THEN [pc |-> "solve", i |-> y, j |-> 0, k |-> 0]
         ELSE [pc |-> "check", i |-> m, j |-> 0, k |-> 0]

\* Where the loops of lines 29-49 stand after the check at (x, jj, kk):
\* kk = jj is the parent check of line 34 for child jj, kk > jj is the
\* sibling check of line 43 for the pair (jj, kk).
Advance(ns, m, x, jj, kk) ==
    LET len == NumChildren(ns, x) IN
    IF kk + 1 < len THEN [pc |-> "solve", i |-> x, j |-> jj, k |-> kk + 1]
    ELSE IF jj + 1 < len THEN [pc |-> "solve", i |-> x, j |-> jj + 1, k |-> jj + 1]
    ELSE LET y == NextNode(ns, m, x + 1) IN
         IF y < m THEN [pc |-> "solve", i |-> y, j |-> 0, k |-> 0]
         ELSE [pc |-> "check", i |-> m, j |-> 0, k |-> 0]

\* Line 29 onwards at the start of a pass.
FirstPos(ns, m) ==
    LET y == NextNode(ns, m, 0) IN
    IF y < m THEN [pc |-> "solve", i |-> y, j |-> 0, k |-> 0]
    ELSE [pc |-> "check", i |-> m, j |-> 0, k |-> 0]

Bump(c) == Min(c + 1, CountCap)

\* Lines 32-37: a = children[j]; if gen[i] > gen[a] { gen.swap(i, a); changed = true }
SolverParentStep ==
    /\ pc = "solve" /\ k = j
    /\ LET a == nodes[i].children[j + 1]
           pos == Advance(nodes, n, i, j, k)
       IN  /\ gen' = Ordered(gen, i, a)
           /\ changed' = (changed \/ OutOfOrder(gen, i, a))
           /\ solverSwaps' = IF OutOfOrder(gen, i, a) THEN Bump(solverSwaps)
                             ELSE solverSwaps
           /\ pc' = pos.pc /\ i' = pos.i /\ j' = pos.j /\ k' = pos.k
    /\ UNCHANGED <<n, nodes, call, input, gsol, passes, retraceSwaps>>

\* Lines 39-47: b = children[k]; if gen[a] > gen[b] { gen.swap(a, b); changed = true }
SolverSiblingStep ==
    /\ pc = "solve" /\ k > j
    /\ LET a == nodes[i].children[j + 1]
           b == nodes[i].children[k + 1]
           pos == Advance(nodes, n, i, j, k)
       IN  /\ gen' = Ordered(gen, a, b)
           /\ changed' = (changed \/ OutOfOrder(gen, a, b))
           /\ solverSwaps' = IF OutOfOrder(gen, a, b) THEN Bump(solverSwaps)
                             ELSE solverSwaps
           /\ pc' = pos.pc /\ i' = pos.i /\ j' = pos.j /\ k' = pos.k
    /\ UNCHANGED <<n, nodes, call, input, gsol, passes, retraceSwaps>>

\* Line 50 and, when the pass changed something, lines 27-29 of the next pass.
SolverEndPass ==
    /\ pc = "check"
    /\ IF changed
       THEN LET pos == FirstPos(nodes, n) IN
            /\ changed' = FALSE
            /\ passes' = Bump(passes)
            /\ pc' = pos.pc /\ i' = pos.i /\ j' = pos.j /\ k' = pos.k
            /\ UNCHANGED gsol
       ELSE /\ pc' = "remap" /\ i' = 0 /\ j' = 0 /\ k' = 0
            /\ gsol' = gen
            /\ UNCHANGED <<changed, passes>>
    /\ UNCHANGED <<n, nodes, gen, call, input, solverSwaps, retraceSwaps>>

-----------------------------------------------------------------------------
(* The link remapper, lines 56-60 *)

\* A remapper that leaves the parent field as it was.
RemapParentStale(g, o) == o

\* Line 58: p.map(|p| gen[p]).
RemapParent(g, o) == IF IsSome(o) THEN Some(g[Unwrap(o)]) ELSE None

\* A remapper that rewrites only the first entry of a child list.
RemapChildrenFirst(g, cs) ==
    [t \in 1 .. Len(cs) |-> IF t = 1 THEN g[cs[t]] ELSE cs[t]]

\* Line 59: for ch in children {*ch = gen[*ch]}.
RemapChildren(g, cs) == [t \in 1 .. Len(cs) |-> g[cs[t]]]

\* A remapper that skips line 59.
RemapNodeParentOnly(g, nd) == [nd EXCEPT !.parent = RemapParent(g, nd.parent)]

\* Lines 57-59: the body of the loop of line 56.
RemapNode(g, nd) ==
    [nd EXCEPT !.parent = RemapParent(g, nd.parent),
               !.children = RemapChildren(g, nd.children)]

\* One iteration of the loop of line 56.
RemapStep ==
    /\ pc = "remap" /\ i < n
    /\ nodes' = [nodes EXCEPT ![i] = RemapNode(gen, nodes[i])]
    /\ i' = i + 1
    /\ UNCHANGED <<n, gen, pc, j, k, changed, call, input, gsol, passes,
                   solverSwaps, retraceSwaps>>

\* The loop of line 56 is over; the loop of line 76 starts.
RemapDone ==
    /\ pc = "remap" /\ i = n
    /\ pc' = "retrace" /\ i' = 0
    /\ UNCHANGED <<n, nodes, gen, j, k, changed, call, input, gsol, passes,
                   solverSwaps, retraceSwaps>>

-----------------------------------------------------------------------------
(* The retrace loop, lines 76-82 *)

\* A swap that forgets the temporary.
SwapNodesClobber(ns, x, y) == [ns EXCEPT ![x] = ns[y]]

\* <[T]>::swap on the slice.
SwapNodes(ns, x, y) == [ns EXCEPT ![x] = ns[y], ![y] = ns[x]]

\* Line 77.
Misplaced(g, x) == g[x] # x

\* A retrace that looks for the index mapped to x instead of the index x
\* maps to.
RetraceTargetInverse(g, x) == CHOOSE y \in DOMAIN g : g[y] = x

\* Line 78: let j = gen[i].
RetraceTarget(g, x) == g[x]

\* Lines 78-80: one iteration of the while loop.
RetraceSwap ==
    /\ pc = "retrace" /\ i < n /\ Misplaced(gen, i)
    /\ LET jj == RetraceTarget(gen, i) IN
       /\ nodes' = SwapNodes(nodes, i, jj)
       /\ gen' = SwapGen(gen, i, jj)
    /\ retraceSwaps' = [retraceSwaps EXCEPT ![i] = @ + 1]
    /\ UNCHANGED <<n, pc, i, j, k, changed, call, input, gsol, passes,
                   solverSwaps>>

\* Line 77 is false: the for loop of line 76 moves on.
RetraceNext ==
    /\ pc = "retrace" /\ i < n /\ ~Misplaced(gen, i)
    /\ i' = i + 1
    /\ UNCHANGED <<n, nodes, gen, pc, j, k, changed, call, input, gsol, passes,
                   solverSwaps, retraceSwaps>>

\* The for loop of line 76 is over: sort returns.
RetraceDone ==
    /\ pc = "retrace" /\ i = n
    /\ pc' = "done"
    /\ UNCHANGED <<n, nodes, gen, i, j, k, changed, call, input, gsol, passes,
                   solverSwaps, retraceSwaps>>

-----------------------------------------------------------------------------
(* The call: fix, lines 5-7, and the first lines of sort *)

\* Child lists of m nodes holding e entries in all: flat is their
\* concatenation and owner[t] the node whose list holds entry t.
ChildList(flat, owner, e, x) ==
    LET mine == {t \in 1 .. e : owner[t] = x}
        before == Cardinality({t \in 1 .. e : owner[t] < x})
    IN  [t \in 1 .. Cardinality(mine) |-> flat[before + t]]

ChildLists(m) ==
    UNION {
        {[x \in Idx(m) |-> ChildList(flat, owner, e, x)] :
            flat \in [1 .. e -> Idx(m)],
            owner \in {o \in [1 .. e -> Idx(m)] :
                          \A t \in 1 .. (e - 1) : o[t] <= o[t + 1]}}
        : e \in 0 .. MaxEdges}

Options(m) == {None} \cup {Some(p) : p \in Idx(m)}

MkNodes(m, par, chl) ==
    [x \in Idx(m) |-> [id |-> x, parent |-> par[x], children |-> chl[x]]]

\* The precondition the callers are left with: every index is in range (by
\* construction here) and the relation the fields describe has no cycle.
ValidInput(ns, m) == Acyclic(ChildEdges(ns, m) \cup ParentEdges(ns, m))

ListEdges(m, chl) ==
    UNION {{<<x, chl[x][t]>> : t \in 1 .. Len(chl[x])} : x \in Idx(m)}

FieldEdges(ps) == {<<ps[t][1], t - 1>> : t \in {u \in 1 .. Len(ps) : IsSome(ps[u])}}

\* The parent fields of nodes 0 .. x-1, as a sequence, that close no cycle
\* with the child lists chl.
RECURSIVE ParentFields(_, _, _)
ParentFields(m, chl, x) ==
    IF x = 0 THEN {<<>>}
    ELSE {qs \in {Append(ps, o) : ps \in ParentFields(m, chl, x - 1),
                                  o \in Options(m)} :
             \/ qs[x] = None
             \/ qs[x][1] \notin
                   ReachFrom(ListEdges(m, chl) \cup FieldEdges(qs), {x - 1})}

InputLists(m) == {chl \in ChildLists(m) : Acyclic(ListEdges(m, chl))}

\* sort is entered: line 26 and the start of the first pass.
Enter(ns, m, c) ==
    LET pos == FirstPos(ns, m) IN
    /\ n = m
    /\ nodes = ns
    /\ gen = Identity(m)
    /\ pc = pos.pc /\ i = pos.i /\ j = pos.j /\ k = pos.k
    /\ changed = FALSE
    /\ call = c
    /\ input = ns
    /\ gsol = Identity(m)
    /\ passes = 1
    /\ solverSwaps = 0
    /\ retraceSwaps = [x \in Idx(m) |-> 0]

\* sort is called on any slice of at most MaxN nodes and MaxEdges child
\* entries that meets ValidInput (InputLists and ParentFields build exactly
\* those; InputIsValid below restates it).
Init ==
    \E m \in 0 .. MaxN : \E chl \in InputLists(m) : \E ps \in ParentFields(m, chl, m) :
        Enter(MkNodes(m, [x \in Idx(m) |-> ps[x + 1]], chl), m, 1)

\* The caller normalises the same slice once more.
FixAgain ==
    /\ pc = "done" /\ call = 1
    /\ LET ns == [x \in Idx(n) |-> [nodes[x] EXCEPT !.id = x]]
           pos == FirstPos(ns, n)
       IN  /\ nodes' = ns
           /\ input' = ns
           /\ pc' = pos.pc /\ i' = pos.i /\ j' = pos.j /\ k' = pos.k
    /\ gen' = Identity(n)
    /\ changed' = FALSE
    /\ call' = call + 1
    /\ gsol' = Identity(n)
    /\ passes' = 1
    /\ solverSwaps' = 0
    /\ retraceSwaps' = [x \in Idx(n) |-> 0]
    /\ UNCHANGED n

Next ==
    \/ SolverParentStep
    \/ SolverSiblingStep
    \/ SolverEndPass
    \/ RemapStep
    \/ RemapDone
    \/ RetraceSwap
    \/ RetraceNext
    \/ RetraceDone
    \/ FixAgain

Spec == Init /\ [][Next]_vars

\* The solver always advances when it can: sort runs to completion on
\* its own thread without waiting for anything.
FairSpec == Spec /\ WF_vars(Next)

-----------------------------------------------------------------------------
(* The retrace loop on its own, started with any permutation in gen *)

Permutations(m) ==
    {g \in [Idx(m) -> Idx(m)] : \A x, y \in Idx(m) : g[x] = g[y] => x = y}

InitRetrace ==
    \E m \in 0 .. MaxPermN : \E g \in Permutations(m) :
        LET ns == MkNodes(m, [x \in Idx(m) |-> None], [x \in Idx(m) |-> <<>>]) IN
        /\ n = m
        /\ nodes = ns
        /\ gen = g
        /\ pc = "retrace" /\ i = 0 /\ j = 0 /\ k = 0
        /\ changed = FALSE
        /\ call = 1
        /\ input = ns
        /\ gsol = g
        /\ passes = 1
        /\ solverSwaps = 0
        /\ retraceSwaps = [x \in Idx(m) |-> 0]

NextRetrace ==
    \/ RetraceSwap
    \/ RetraceNext
    \/ RetraceDone

SpecRetrace == InitRetrace /\ [][NextRetrace]_vars

FairSpecRetrace == SpecRetrace /\ WF_vars(NextRetrace)

-----------------------------------------------------------------------------
(* Vocabulary of the properties *)

IsPermutation(g, m) ==
    /\ DOMAIN g = Idx(m)
    /\ \A v \in Idx(m) : Cardinality({x \in Idx(m) : g[x] = v}) = 1

\* Every present parent field names a node whose child list holds the node.
ParentsListed(ns, m) == ParentEdges(ns, m) \subseteq ChildEdges(ns, m)

\* No child list names the same index twice.
NoRepeats(ns, m) ==
    \A x \in Idx(m) : \A s, t \in 1 .. Len(ns[x].children) :
        s < t => ns[x].children[s] # ns[x].children[t]

\* The order sort aims at: parent before child, earlier sibling before later.
TargetEdges(ns, m) == ChildEdges(ns, m) \cup SiblingEdges(ns, m)

OrderAcyclic(ns, m) == Acyclic(TargetEdges(ns, m))

\* Each index occurs at most once over all child lists and no node is its
\* own descendant.
IsForest(ns, m) ==
    /\ Acyclic(ChildEdges(ns, m))
    /\ \A c \in Idx(m) :
          Cardinality(UNION {{<<x, t>> : t \in {u \in 1 .. Len(ns[x].children) :
                                                  ns[x].children[u] = c}} :
                             x \in Idx(m)}) <= 1

\* The pairs of the transitively closed target order that g puts the wrong
\* way round.
Violations(g, ns, m) ==
    Cardinality({e \in Closure(TargetEdges(ns, m), m) : g[e[1]] > g[e[2]]})

\* Both ordering invariants, read off the child lists.
Normalized(ns, m) ==
    \A x \in Idx(m) : \A t \in 1 .. Len(ns[x].children) :
        /\ x < ns[x].children[t]
        /\ t > 1 => ns[x].children[t - 1] <= ns[x].children[t]

\* The orbit of x under the permutation g.
Cycle(g, m, x) == ReachFrom({<<y, g[y]>> : y \in Idx(m)}, {x})

NumCycles(g, m) == Cardinality({Cycle(g, m, x) : x \in Idx(m)})

MinOf(S) == CHOOSE x \in S : \A y \in S : x <= y

RECURSIVE SumTo(_, _)
SumTo(f, m) == IF m = 0 THEN 0 ELSE f[m - 1] + SumTo(f, m - 1)

\* Sanity: every explored input meets the callers' precondition.
InputIsValid == call = 1 => ValidInput(input, n)

-----------------------------------------------------------------------------
(* C1: parent before child *)

ParentBeforeChild ==
    \A x \in Idx(n) : IsSome(nodes[x].parent) => Unwrap(nodes[x].parent) < x

\* C1 as stated: after sort returns on any valid input, every node whose
\* parent field holds p sits at an index greater than p.
C1_ParentBeforeChild_AnyInput == pc = "done" => ParentBeforeChild

\* C1 amended: the same, for inputs in which every present parent field
\* names a node whose child list contains the node.
C1_ParentBeforeChild ==
    (pc = "done" /\ ParentsListed(input, n)) => ParentBeforeChild

C1_Witness ==
    /\ pc = "done" /\ call = 1
    /\ ParentsListed(input, n)
    /\ gsol # Identity(n)
    /\ \E x \in Idx(n) : IsSome(nodes[x].parent)

-----------------------------------------------------------------------------
(* C2: sibling order *)

StrictlyAscending(cs) == \A t \in 1 .. (Len(cs) - 1) : cs[t] < cs[t + 1]

\* C2 as stated: after sort returns on any valid input, every child list
\* is strictly ascending.
C2_SiblingOrder_AnyInput ==
    pc = "done" => \A x \in Idx(n) : StrictlyAscending(nodes[x].children)

\* C2 amended: the same, for inputs in which no child list names an index
\* twice.
C2_SiblingOrder ==
    (pc = "done" /\ NoRepeats(input, n))
        => \A x \in Idx(n) : StrictlyAscending(nodes[x].children)

C2_Witness ==
    /\ pc = "done" /\ call = 1
    /\ NoRepeats(input, n)
    /\ \E x \in Idx(n) :
          /\ Len(input[x].children) >= 2
          /\ ~StrictlyAscending(input[x].children)

-----------------------------------------------------------------------------
(* C3: termination of the solver *)

\* C3 as stated: on any valid input sort eventually returns.
C3_Terminates_AnyInput == <>(pc = "done")

\* C3 amended: sort eventually returns on every valid input whose target
\* order (parent before child, earlier sibling before later sibling) has no
\* cycle; every forest is such an input.
C3_Terminates == OrderAcyclic(input, n) ~> (pc = "done")

\* Sanity: forests are among the inputs C3_Terminates covers, and on the
\* inputs it does not cover sort never returns.
ForestsAreOrderAcyclic == IsForest(input, n) => OrderAcyclic(input, n)
OnlyOrderAcyclicReturns == pc = "done" => OrderAcyclic(input, n)

C3_Witness ==
    /\ pc = "done" /\ call = 1
    /\ OrderAcyclic(input, n)
    /\ passes >= 3

-----------------------------------------------------------------------------
(* C4: structure preservation *)

\* C4: when sort has returned, the node that was at index x sits at index
\* gsol[x], its parent field is absent iff it was absent and otherwise
\* holds gsol[p] for its old parent p, its child list has the same length
\* and holds gsol[c] where it held c; so the child and parent relations of
\* the output are the images under gsol of those of the input.
C4_StructurePreserved ==
    pc = "done" =>
        /\ \A x \in Idx(n) :
              LET old == input[x]
                  new == nodes[gsol[x]]
              IN  /\ new.id = old.id
                  /\ IsSome(new.parent) = IsSome(old.parent)
                  /\ IsSome(old.parent)
                        => Unwrap(new.parent) = gsol[Unwrap(old.parent)]
                  /\ Len(new.children) = Len(old.children)
                  /\ \A t \in 1 .. Len(old.children) :
                        new.children[t] = gsol[old.children[t]]
        /\ ChildEdges(nodes, n)
              = {<<gsol[e[1]], gsol[e[2]]>> : e \in ChildEdges(input, n)}
        /\ ParentEdges(nodes, n)
              = {<<gsol[e[1]], gsol[e[2]]>> : e \in ParentEdges(input, n)}

C4_Witness ==
    /\ pc = "done" /\ call = 1
    /\ gsol # Identity(n)
    /\ \E x \in Idx(n) : IsSome(input[x].parent) /\ Len(input[x].children) >= 2

-----------------------------------------------------------------------------
(* C5: idempotence *)

NoSwapsSoFar ==
    /\ solverSwaps = 0
    /\ passes = 1
    /\ gen = Identity(n)
    /\ \A x \in Idx(n) : retraceSwaps[x] = 0
    /\ nodes = input

\* C5: on an input that already meets both ordering invariants, and on the
\* output of an earlier call, the solver never swaps and stops after its
\* first pass, the retrace loop never swaps, and sort returns with every
\* node, parent field and child list where and as it was.
C5_Idempotent ==
    /\ (Normalized(input, n) \/ call = 2) => NoSwapsSoFar
    /\ (pc = "done" /\ call = 1) => Normalized(nodes, n)

C5_Witness ==
    /\ pc = "done" /\ call = 2
    /\ \E x \in Idx(n) : Len(nodes[x].children) >= 2
    /\ \E x \in Idx(n) : IsSome(nodes[x].parent)

-----------------------------------------------------------------------------
(* C6: the generator is a bijection *)

\* C6: in every state of sort gen holds every index below n exactly once,
\* and until the solver's first swap it is the identity.
C6_GenBijective ==
    /\ IsPermutation(gen, n)
    /\ (pc \in {"solve", "check"} /\ solverSwaps = 0) => gen = Identity(n)

C6_Witness ==
    /\ pc = "retrace"
    /\ solverSwaps >= 2
    /\ \E x \in Idx(n) : retraceSwaps[x] > 0
    /\ gen # Identity(n)

-----------------------------------------------------------------------------
(* C7: one scan of the retrace loop realises the permutation *)

\* C7: started with any permutation g in gen, the single scan of the
\* retrace loop ends, and it ends with gen the identity and the node that
\* was at index x at index g[x], for every x.
C7_RetraceRealises ==
    /\ <>(pc = "done")
    /\ [](pc = "done" =>
            /\ gen = Identity(n)
            /\ \A x \in Idx(n) : nodes[gsol[x]] = input[x])

C7_Witness ==
    /\ pc = "done"
    /\ \E x \in Idx(n) : gsol[x] # x /\ gsol[gsol[x]] # x

-----------------------------------------------------------------------------
(* C8: the number of node swaps of the retrace loop *)

SwapsOwed(g, m, x) ==
    IF x = MinOf(Cycle(g, m, x)) THEN Cardinality(Cycle(g, m, x)) - 1 ELSE 0

RetraceCount ==
    pc \in {"retrace", "done"} =>
        /\ \A x \in Idx(n) :
              /\ (pc = "done" \/ x < i) => retraceSwaps[x] = SwapsOwed(gsol, n, x)
              /\ (pc = "retrace" /\ x = i) => retraceSwaps[x] <= SwapsOwed(gsol, n, x)
              /\ (pc = "retrace" /\ x > i) => retraceSwaps[x] = 0
        /\ pc = "done" => SumTo(retraceSwaps, n) = n - NumCycles(gsol, n)

SettledStays ==
    pc = "retrace" =>
        \A y \in Idx(n) : gen[y] = y => (gen'[y] = y /\ nodes'[y] = nodes[y])

\* C8: the retrace loop swaps nodes (cycle length - 1) times for each cycle
\* of the permutation it starts with, all of them while the scan stands on
\* the cycle's smallest index, n minus the number of cycles in all; and a
\* position y with gen[y] = y is never touched again.
C8_RetraceSwapCount == []RetraceCount /\ [][SettledStays]_vars

C8_Witness ==
    /\ pc = "done"
    /\ \E x \in Idx(n) : retraceSwaps[x] >= 2
    /\ \E x \in Idx(n) : gsol[x] = x
    /\ NumCycles(gsol, n) >= 2

-----------------------------------------------------------------------------
(* C9: the phases run in order and keep to their own data *)

\* new holds the index fields of old rewritten through g.
Rewritten(g, old, new) ==
    /\ new.id = old.id
    /\ Len(new.parent) = Len(old.parent)
    /\ \A t \in 1 .. Len(old.parent) : new.parent[t] = g[old.parent[t]]
    /\ Len(new.children) = Len(old.children)
    /\ \A t \in 1 .. Len(old.children) : new.children[t] = g[old.children[t]]

PhaseState ==
    /\ pc \in {"solve", "check"} => nodes = input
    /\ pc = "remap" =>
          /\ gen = gsol
          /\ \A x \in Idx(n) :
                IF x < i THEN Rewritten(gsol, input[x], nodes[x])
                ELSE nodes[x] = input[x]
    /\ pc \in {"retrace", "done"} =>
          \A x \in Idx(n) :
              /\ Cardinality({y \in Idx(n) : nodes[y].id = x}) = 1
              /\ \A y \in Idx(n) :
                    nodes[y].id = x => Rewritten(gsol, input[x], nodes[y])

PhaseStep ==
    /\ pc \in {"solve", "check"} => nodes' = nodes
    /\ pc = "remap" =>
          /\ gen' = gen
          /\ \A x \in Idx(n) : nodes'[x].id = nodes[x].id
    /\ pc = "retrace" =>
          \A x \in Idx(n) :
              Cardinality({y \in Idx(n) : nodes'[y] = nodes[x]})
                  = Cardinality({y \in Idx(n) : nodes[y] = nodes[x]})

\* C9: while the solver runs, up to and including its clean pass, the slice
\* is as it was passed in; the remapper runs with the solver's final gen,
\* rewrites the nodes in index order without moving any and without
\* touching gen, and has rewritten every node when the first node is
\* swapped; the retrace loop only moves nodes, it rewrites no field.
C9_PhasesKeepApart == []PhaseState /\ [][PhaseStep]_vars

C9_Witness ==
    /\ pc = "retrace"
    /\ solverSwaps >= 1
    /\ \E x \in Idx(n) : retraceSwaps[x] > 0
    /\ \E x \in Idx(n) : IsSome(nodes[x].parent) /\ nodes[x] # input[nodes[x].id]

-----------------------------------------------------------------------------
(* C10: every swap of the solver makes progress *)

SolverSwaps == pc = "solve" /\ gen' # gen

\* The swap exchanges the gen values of a parent and a child, or of an
\* earlier and a later sibling, that stood the wrong way round.
Triggered ==
    \E e \in TargetEdges(nodes, n) :
        /\ gen[e[1]] > gen[e[2]]
        /\ gen' = [gen EXCEPT ![e[1]] = gen[e[2]], ![e[2]] = gen[e[1]]]

Progress == Violations(gen', nodes, n) < Violations(gen, nodes, n)

\* C10 as stated: on any valid input every swap of the solver is triggered
\* by a pair that stands the wrong way round and lowers the number of
\* violated pairs of the transitively closed target order.
C10_SwapsProgress_AnyInput == [][SolverSwaps => (Triggered /\ Progress)]_vars

\* C10 amended: every swap is so triggered on any valid input, and lowers
\* the number of violated pairs whenever the target order has no cycle
\* (whenever it is a partial order).
C10_SwapsProgress ==
    [][SolverSwaps => (Triggered /\ (OrderAcyclic(nodes, n) => Progress))]_vars

C10_Witness ==
    /\ pc = "solve"
    /\ OrderAcyclic(input, n)
    /\ solverSwaps >= 2
    /\ passes >= 2

====
